---- MODULE Spec2Model ----
(***************************************************************************)
(* A model of explain_my_repo (src/app.py): one POST /analyze request.    *)
(*                                                                         *)
(* A Python str is a sequence of characters, each character a one-letter  *)
(* TLA+ string.  Two characters cannot be written inside a TLA+ string    *)
(* and are named instead: Backtick and Quote.  Python's None is the       *)
(* value None below.                                                       *)
(***************************************************************************)
EXTENDS Integers, Sequences, FiniteSets, TLC

VARIABLES
    pc,             \* position of the request handler analyze()
    GITHUB_TOKEN,   \* process-wide configuration, read once at startup
    github_url,     \* the submitted form field
    url_parts,      \* history: how github_url was put together
    owner, repo,    \* result of extract_repo_info
    calls,          \* history: the remote calls issued so far, in order
    pending,        \* the remote calls issued and not yet returned
    received,       \* history: <<call, response>> for every returned call
    repo_info,      \* parsed body of the repository record
    readme,         \* result of fetch_readme
    structure,      \* result of fetch_repo_structure
    dependencies,   \* the mapping fetch_dependency_files builds
    dep_pos,        \* loop position of fetch_dependency_files
    languages,      \* languages_stats
    repo_data,      \* what fetch_github_data returns (or None)
    fetch_error,    \* its error message (or None)
    analysis_text,  \* text of the first candidate (or None)
    text_parts,     \* history: how analysis_text was put together
    gemini_error,   \* error message of the generation call (or None)
    sections,       \* what parse_analysis returns
    page            \* the response of the request

vars == <<pc, GITHUB_TOKEN, github_url, url_parts, owner, repo, calls, pending,
          received, repo_info, readme, structure, dependencies, dep_pos,
          languages, repo_data, fetch_error, analysis_text, text_parts,
          gemini_error, sections, page>>

-----------------------------------------------------------------------------
(* Characters and Python str operations                                    *)

Backtick == "<backtick>"
Quote == "<quote>"
None == <<"<None>">>

\* the characters str.strip() and the regex class \s treat as whitespace
Whitespace == {" ", "\n", "\t", "\r"}

Min(a, b) == IF a < b THEN a ELSE b

\* s[i:] and s[:n] with Python's clamping
DropFirst(s, n) == SubSeq(s, Min(n, Len(s)) + 1, Len(s))
TakeFirst(s, n) == SubSeq(s, 1, Min(n, Len(s)))
DropLast(s, n) == SubSeq(s, 1, Len(s) - Min(n, Len(s)))

startswith(s, p) == Len(p) <= Len(s) /\ SubSeq(s, 1, Len(p)) = p
endswith(s, p) == Len(p) <= Len(s) /\ SubSeq(s, Len(s) - Len(p) + 1, Len(s)) = p

RECURSIVE lstrip(_, _)
lstrip(s, chars) ==
    IF s # <<>> /\ Head(s) \in chars THEN lstrip(Tail(s), chars) ELSE s

RECURSIVE rstrip(_, _)
rstrip(s, chars) ==
    IF s # <<>> /\ s[Len(s)] \in chars THEN rstrip(DropLast(s, 1), chars) ELSE s

strip(s) == rstrip(lstrip(s, Whitespace), Whitespace)

\* str.replace(old, new): every non-overlapping occurrence, left to right
RECURSIVE replace(_, _, _)
replace(s, old, new) ==
    IF Len(s) < Len(old) THEN s
    ELSE IF startswith(s, old)
         THEN new \o replace(DropFirst(s, Len(old)), old, new)
         ELSE <<Head(s)>> \o replace(Tail(s), old, new)

\* the longest prefix of s with no character of stop ([^...]* in a regex)
RECURSIVE Run(_, _)
Run(s, stop) ==
    IF s = <<>> \/ Head(s) \in stop THEN <<>>
    ELSE <<Head(s)>> \o Run(Tail(s), stop)

UpperCase == <<"A", "B", "C", "D", "E", "F", "G", "H", "I", "J", "K", "L", "M",
               "N", "O", "P", "Q", "R", "S", "T", "U", "V", "W", "X", "Y", "Z">>
LowerCase == <<"a", "b", "c", "d", "e", "f", "g", "h", "i", "j", "k", "l", "m",
               "n", "o", "p", "q", "r", "s", "t", "u", "v", "w", "x", "y", "z">>

LowerChar(c) ==
    IF \E i \in 1..26 : UpperCase[i] = c
    THEN LowerCase[CHOOSE i \in 1..26 : UpperCase[i] = c]
    ELSE c

\* str.lower()
lower(s) == [i \in 1..Len(s) |-> LowerChar(s[i])]

-----------------------------------------------------------------------------
(* extract_repo_info                                                        *)

GitSuffix == <<".", "g", "i", "t">>
HostPart == <<"g", "i", "t", "h", "u", "b", ".", "c", "o", "m", "/">>
SchemeOptions == {<<>>, <<"h", "t", "t", "p", ":", "/", "/">>,
                  <<"h", "t", "t", "p", "s", ":", "/", "/">>}
WwwOptions == {<<>>, <<"w", "w", "w", ".">>}

\* One attempt of the pattern
\*   (?:https?://)?(?:www\.)?github\.com/([^/]+)/([^/\s?#]+)
\* at the start of s: the group values, or None when it does not match there.
MatchHere(s) ==
    LET heads == {sc \o w \o HostPart : sc \in SchemeOptions, w \in WwwOptions}
        hit == {h \in heads : startswith(s, h)}
    IN  IF hit = {} THEN None
        ELSE LET h == CHOOSE x \in hit : \A y \in hit : Len(y) <= Len(x)
                 afterHost == DropFirst(s, Len(h))
                 g1 == Run(afterHost, {"/"})
                 afterOwner == DropFirst(afterHost, Len(g1))
                 g2 == Run(DropFirst(afterOwner, 1), {"/", "?", "#"} \cup Whitespace)
             IN  IF g1 # <<>> /\ afterOwner # <<>> /\ g2 # <<>>
                 THEN <<g1, g2>>
                 ELSE None

\* re.search: the match at the leftmost position where the pattern matches
RECURSIVE re_search(_)
re_search(s) ==
    IF s = <<>> THEN None
    ELSE IF MatchHere(s) # None THEN MatchHere(s)
    ELSE re_search(Tail(s))

extract_repo_info(url) ==
    LET stripped == rstrip(strip(url), {"/"})
        match == re_search(stripped)
    IN  IF match # None
        THEN <<match[1], replace(match[2], GitSuffix, <<>>)>>
        ELSE <<None, None>>

-----------------------------------------------------------------------------
(* JSON values, as json.loads and response.json() build them.  A value is *)
(* tagged with its Python type; a dict is a function from its keys.       *)

JStr(s) == [t |-> "str", s |-> s]
JNum(n) == [t |-> "num", n |-> n]
JBool(b) == [t |-> "bool", b |-> b]
JNull == [t |-> "null"]
JList(l) == [t |-> "list", l |-> l]
JObj(o) == [t |-> "obj", o |-> o]

\* the exception json.loads raises on text that is not JSON
JSONDecodeError == [t |-> "JSONDecodeError"]

\* the truth value of a JSON value in an if
Truthy(v) ==
    CASE v.t = "str" -> v.s # <<>>
      [] v.t = "num" -> v.n # 0
      [] v.t = "bool" -> v.b
      [] v.t = "null" -> FALSE
      [] v.t = "list" -> v.l # <<>>
      [] v.t = "obj" -> DOMAIN v.o # {}

\* dict.get(key, default) and d[key] = value
Get(o, k, default) == IF k \in DOMAIN o THEN o[k] ELSE default
Put(o, k, v) == [x \in DOMAIN o \cup {k} |-> IF x = k THEN v ELSE o[x]]

EmptyDict == [x \in {} |-> JNull]

default_keys == <<"tech_stack", "project_type", "architecture_mermaid",
                  "architecture_description", "what_it_does", "recruiter_summary">>

KeyChars(k) ==
    CASE k = "tech_stack" -> <<"t", "e", "c", "h", "_", "s", "t", "a", "c", "k">>
      [] k = "project_type" -> <<"p", "r", "o", "j", "e", "c", "t", "_", "t", "y", "p", "e">>
      [] k = "architecture_mermaid" ->
            <<"a", "r", "c", "h", "i", "t", "e", "c", "t", "u", "r", "e", "_",
              "m", "e", "r", "m", "a", "i", "d">>
      [] k = "architecture_description" ->
            <<"a", "r", "c", "h", "i", "t", "e", "c", "t", "u", "r", "e", "_",
              "d", "e", "s", "c", "r", "i", "p", "t", "i", "o", "n">>
      [] k = "what_it_does" -> <<"w", "h", "a", "t", "_", "i", "t", "_", "d", "o", "e", "s">>
      [] k = "recruiter_summary" ->
            <<"r", "e", "c", "r", "u", "i", "t", "e", "r", "_",
              "s", "u", "m", "m", "a", "r", "y">>
      [] k = "confidence" -> <<"c", "o", "n", "f", "i", "d", "e", "n", "c", "e">>

\* the keys of the JSON texts of this model, in the order they are written
KeyOrder == default_keys \o <<"confidence">>

Digit == <<"0", "1", "2", "3", "4", "5", "6", "7", "8", "9">>

\* JSON string escapes of the characters that need one
RECURSIVE Escape(_)
Escape(s) ==
    IF s = <<>> THEN <<>>
    ELSE (CASE Head(s) = "\n" -> <<"\\", "n">>
            [] Head(s) = Quote -> <<"\\", Quote>>
            [] Head(s) = "\\" -> <<"\\", "\\">>
            [] OTHER -> <<Head(s)>>) \o Escape(Tail(s))

\* The JSON text of a value (json.dumps layout: ", " and ": ").
RECURSIVE Dumps(_)
RECURSIVE DumpsItems(_)
RECURSIVE DumpsMembers(_, _)
Dumps(v) ==
    CASE v.t = "str" -> <<Quote>> \o Escape(v.s) \o <<Quote>>
      [] v.t = "num" -> <<Digit[v.n + 1]>>
      [] v.t = "bool" -> IF v.b THEN <<"t", "r", "u", "e">> ELSE <<"f", "a", "l", "s", "e">>
      [] v.t = "null" -> <<"n", "u", "l", "l">>
      [] v.t = "list" -> <<"[">> \o DumpsItems(v.l) \o <<"]">>
      [] v.t = "obj" -> <<"{">> \o DumpsMembers(v.o, KeyOrder) \o <<"}">>
DumpsItems(l) ==
    IF l = <<>> THEN <<>>
    ELSE Dumps(Head(l)) \o (IF Tail(l) = <<>> THEN <<>> ELSE <<",", " ">>)
         \o DumpsItems(Tail(l))
DumpsMembers(o, keys) ==
    IF keys = <<>> THEN <<>>
    ELSE IF Head(keys) \notin DOMAIN o THEN DumpsMembers(o, Tail(keys))
    ELSE <<Quote>> \o KeyChars(Head(keys)) \o <<Quote, ":", " ">> \o Dumps(o[Head(keys)])
         \o (IF \E i \in 1..Len(Tail(keys)) : Tail(keys)[i] \in DOMAIN o
             THEN <<",", " ">> ELSE <<>>)
         \o DumpsMembers(o, Tail(keys))

-----------------------------------------------------------------------------
(* The texts the generation call can return                                 *)

A_to_B == <<"A", "-", "-", ">", "B">>
GraphHeader == <<"g", "r", "a", "p", "h", " ", "T", "D", ";", "\n">>
Fence == <<Backtick, Backtick, Backtick>>
JsonTag == <<"j", "s", "o", "n">>
MermaidTag == <<"m", "e", "r", "m", "a", "i", "d">>
NotAvailable == <<"N", "o", "t", " ", "a", "v", "a", "i", "l", "a", "b", "l", "e">>
ErrorParsing == <<"E", "r", "r", "o", "r", " ", "p", "a", "r", "s", "i", "n", "g", " ",
                  "a", "n", "a", "l", "y", "s", "i", "s">>
Ellipsis == <<".", ".", ".">>

\* a key that is not in the object
Absent == [t |-> "absent"]

MermaidValues ==
    { JStr(A_to_B),
      JStr(<<"g", "r", "a", "p", "h", " ", "L", "R", ";", "A", "-", "-", ">", "B">>),
      JStr(<<" ">> \o A_to_B \o <<"\n">>),
      JStr(Fence \o MermaidTag \o <<"\n">> \o A_to_B \o <<"\n">> \o Fence),
      JStr(<<"N", "o", "t", " ", "A", "v", "a", "i", "l", "a", "b", "l", "e">>),
      JStr(<<"n", "o", "t", " ", "a", "v", "a", "i", "l", "a", "b", "l", "e">>),
      JStr(<<"N", "O", "T", " ", "A", "V", "A", "I", "L", "A", "B", "L", "E">>),
      JStr(<<>>),
      JNum(5), JNull, JList(<<JStr(A_to_B)>>) }

TechValues ==
    { JList(<<JStr(<<"G", "o">>), JStr(<<"R", "e", "d", "i", "s">>)>>),
      JList(<<>>),
      JList(<<JStr(<<"G", "o">>), JNum(5)>>),
      JStr(<<"G", "o">>),
      JNum(5), JNull }

OtherKeys == {"project_type", "architecture_description", "what_it_does",
              "recruiter_summary"}

\* the other keys of the object: which are there and what they hold
OtherProfiles ==
    { EmptyDict,
      [k \in {"project_type"} |-> JStr(<<"A", "P", "I">>)],
      [k \in {"project_type"} |-> JNum(5)],
      [k \in OtherKeys |-> JStr(KeyChars(k))],
      [k \in OtherKeys \cup {"confidence"} |->
          IF k = "confidence" THEN JNum(9) ELSE JStr(KeyChars(k))] }

BuildDoc(m, ts, others) ==
    LET dom == DOMAIN others
               \cup (IF m = Absent THEN {} ELSE {"architecture_mermaid"})
               \cup (IF ts = Absent THEN {} ELSE {"tech_stack"})
    IN  JObj([k \in dom |-> CASE k = "architecture_mermaid" -> m
                              [] k = "tech_stack" -> ts
                              [] OTHER -> others[k]])

JsonObjects ==
    { BuildDoc(m, ts, others) : m \in MermaidValues \cup {Absent},
                                ts \in TechValues \cup {Absent},
                                others \in OtherProfiles }

\* JSON values that are not objects
JsonNonObjects ==
    { JNull, JNum(5), JBool(TRUE), JStr(<<"o", "k">>), JList(<<>>),
      JList(<<JStr(KeyChars("tech_stack"))>>),
      JList(<<BuildDoc(JStr(A_to_B), Absent, EmptyDict)>>) }

JsonDocs == JsonObjects \cup JsonNonObjects

\* every JSON text of the model, with the value json.loads gives for it
JsonTexts == { [doc |-> d, text |-> Dumps(d)] : d \in JsonDocs }

\* json.loads: whitespace around the value is ignored; any text that is not
\* the JSON text of a value raises JSONDecodeError.
JsonLoads(s) ==
    LET hit == {jt \in JsonTexts : jt.text = strip(s)}
    IN  IF hit = {} THEN JSONDecodeError ELSE (CHOOSE jt \in hit : TRUE).doc

\* how a text is wrapped around a JSON text J
WrapKinds == {"plain", "padded", "bare", "json", "json_tight", "JSON",
              "javascript", "open"}
Wrap(w, J) ==
    CASE w = "plain" -> J
      [] w = "padded" -> <<" ", "\n">> \o J \o <<"\n">>
      [] w = "bare" -> Fence \o <<"\n">> \o J \o <<"\n">> \o Fence
      [] w = "json" -> Fence \o JsonTag \o <<"\n">> \o J \o <<"\n">> \o Fence
      [] w = "json_tight" -> Fence \o JsonTag \o J \o Fence
      [] w = "JSON" -> Fence \o <<"J", "S", "O", "N", "\n">> \o J \o <<"\n">> \o Fence
      [] w = "javascript" ->
            Fence \o <<"j", "a", "v", "a", "s", "c", "r", "i", "p", "t", "\n">>
            \o J \o <<"\n">> \o Fence
      [] w = "open" -> Fence \o JsonTag \o <<"\n">> \o J

\* how far the lengths of the prose texts go beyond the summary's cut
MaxOver == 2
SummaryCut == 100

Prose(n) == [i \in 1..n |-> <<"T", "h", "e", " ", "r", "e", "p", "o", ".">>[(i % 9) + 1]]

\* texts that are not JSON: prose of several lengths, and a JSON text cut
\* short (the output-length cap of the generation call)
ProseLengths == {0, 1} \cup ((SummaryCut - MaxOver)..(SummaryCut + MaxOver))
CutLengths == {1, 9, 14}
TruncatedDoc == BuildDoc(JStr(A_to_B), JStr(<<"G", "o">>), EmptyDict)

TextInputs ==
    { [kind |-> "json", doc |-> jt.doc, wrap |-> w, n |-> 0,
       text |-> Wrap(w, jt.text)] : jt \in JsonTexts, w \in WrapKinds }
    \cup
    { [kind |-> "prose", doc |-> JNull, wrap |-> w, n |-> n,
       text |-> Wrap(w, Prose(n))] : n \in ProseLengths, w \in {"plain", "json"} }
    \cup
    { [kind |-> "cut", doc |-> TruncatedDoc, wrap |-> w, n |-> n,
       text |-> Wrap(w, TakeFirst(Dumps(TruncatedDoc), n))] :
         n \in CutLengths, w \in {"plain", "open"} }

-----------------------------------------------------------------------------
(* parse_analysis                                                           *)

\* an exception other than JSONDecodeError, which parse_analysis lets through
Fault(name) == [fault |-> name]
IsFault(v) == DOMAIN v = {"fault"}

\* the fence removal with the trailing marker left in place
StripFencesLeadingOnly(text) ==
    LET c0 == strip(text)
        c1 == IF startswith(c0, Fence \o JsonTag) THEN DropFirst(c0, 7) ELSE c0
    IN  IF startswith(c1, Fence) THEN DropFirst(c1, 3) ELSE c1

\* lines 314-320: the fence markers around the text
StripFences(text) ==
    LET c0 == strip(text)
        c1 == IF startswith(c0, Fence \o JsonTag) THEN DropFirst(c0, 7) ELSE c0
        c2 == IF startswith(c1, Fence) THEN DropFirst(c1, 3) ELSE c1
    IN  IF endswith(c2, Fence) THEN DropLast(c2, 3) ELSE c2

\* lines 329-334: the keys that are not there get their defaults
RECURSIVE FillDefaults(_, _)
FillDefaults(data, keys) ==
    IF keys = <<>> THEN data
    ELSE LET key == Head(keys)
             filled == IF key \notin DOMAIN data
                       THEN Put(data, key, IF key = "architecture_mermaid"
                                           THEN JStr(<<>>) ELSE JStr(NotAvailable))
                       ELSE data
         IN  FillDefaults(filled, Tail(keys))

\* lines 338-347, for a diagram value that is a str
RepairMermaid(value) ==
    LET unfenced == replace(replace(value, Fence \o MermaidTag, <<>>), Fence, <<>>)
        mermaid_code == strip(unfenced)
        headed == IF mermaid_code # <<>> /\ ~startswith(mermaid_code, <<"g", "r", "a", "p", "h">>)
                  THEN GraphHeader \o mermaid_code
                  ELSE mermaid_code
    IN  IF lower(headed) = <<"n", "o", "t", " ", "a", "v", "a", "i", "l", "a", "b", "l", "e">>
        THEN <<>>
        ELSE headed

\* ', '.join(list of str)
RECURSIVE join(_)
join(l) ==
    IF l = <<>> THEN <<>>
    ELSE Head(l).s \o (IF Tail(l) = <<>> THEN <<>> ELSE <<",", " ">>) \o join(Tail(l))

\* lines 324-352, for the value json.loads returned
Normalize(data) ==
    IF data.t # "obj"
    THEN \* 'key not in data' or 'data[key] = ...' on a value that is no dict
         Fault("TypeError")
    ELSE LET filled == FillDefaults(data.o, default_keys)
             m == filled["architecture_mermaid"]
             ts == filled["tech_stack"]
         IN  IF m.t # "str" THEN Fault("AttributeError")   \* .replace
             ELSE IF ts.t = "list" /\ \E i \in 1..Len(ts.l) : ts.l[i].t # "str"
                  THEN Fault("TypeError")                   \* ', '.join
             ELSE LET repaired == Put(filled, "architecture_mermaid",
                                      JStr(RepairMermaid(m.s)))
                  IN  IF ts.t = "list"
                      THEN Put(repaired, "tech_stack", JStr(join(ts.l)))
                      ELSE repaired

\* the error record with the whole raw text in the summary
ErrorRecordUncut(text) ==
    [k \in {default_keys[i] : i \in 1..6} |->
        CASE k = "architecture_mermaid" -> JStr(<<>>)
          [] k = "recruiter_summary" ->
                JStr(ErrorParsing \o <<":", " ">> \o text \o Ellipsis)
          [] OTHER -> JStr(ErrorParsing)]

\* lines 355-362
ErrorRecord(text) ==
    [k \in {default_keys[i] : i \in 1..6} |->
        CASE k = "architecture_mermaid" -> JStr(<<>>)
          [] k = "recruiter_summary" ->
                JStr(ErrorParsing \o <<":", " ">> \o TakeFirst(text, SummaryCut)
                     \o Ellipsis)
          [] OTHER -> JStr(ErrorParsing)]

parse_analysis(text) ==
    LET data == JsonLoads(strip(StripFences(text)))
    IN  IF data = JSONDecodeError THEN ErrorRecord(text)
        ELSE Normalize(data)

-----------------------------------------------------------------------------
(* Remote calls and their responses                                         *)

\* Python's None where a dict is expected
NoneDict == [none |-> TRUE]

\* A call: the endpoint, and for a raw file its branch and path.
Call(endpoint, branch, path) == [endpoint |-> endpoint, branch |-> branch, path |-> path]
RepoCall == Call("repos", "", <<>>)
ReadmeCall == Call("readme", "", <<>>)
ContentsCall == Call("contents", "", <<>>)
LanguagesCall == Call("languages", "", <<>>)
RawCall(branch, path) == Call("raw", branch, path)
GeminiCall == Call("generateContent", "", <<>>)

\* a body that is not JSON, and the text of a raw file
Invalid == [t |-> "invalid"]
JText(s) == [t |-> "text", s |-> s]

\* A response: an HTTP response with its status, its X-RateLimit-Remaining
\* header ("unknown" when the header is not there) and its body, or one of
\* the exceptions requests raises instead.
Http(status, remaining, body) ==
    [kind |-> "http", status |-> status, remaining |-> remaining, body |-> body]
Timeout == [kind |-> "Timeout", status |-> 0, remaining |-> "unknown", body |-> Invalid]
ConnectionError ==
    [kind |-> "ConnectionError", status |-> 0, remaining |-> "unknown", body |-> Invalid]

\* str(n) for a natural number
RECURSIVE str(_)
str(n) == IF n < 10 THEN <<Digit[n + 1]>> ELSE str(n \div 10) \o <<Digit[(n % 10) + 1]>>

-----------------------------------------------------------------------------
(* Messages: a message is a str; its fixed parts are written as one        *)
(* element each, the interpolated values character by character.           *)

MsgNotFoundHead == "Repository '"
MsgNotFoundTail == "' not found. Make sure it exists and is public."
MsgRateLimit == "GitHub API rate limit exceeded.\n\n"
MsgTokenTip ==
    "TIP: Add a GitHub token to your .env file to get 5000 requests/hour instead of 60.\n"
MsgTokenLink == "Get one at: https://github.com/settings/tokens"
MsgWait == "Please wait a few minutes and try again."
MsgForbidden == "Access forbidden. The repository might be private."
MsgTimedOut == "Request timed out. Please try again."
MsgNetwork == "Network error: "
MsgEmptyUrl == "Please enter a GitHub repository URL."
MsgInvalidUrl ==
    "Invalid GitHub URL format. Please use a URL like: https://github.com/username/repository"
MsgInternal == "Internal server error. Please try again."

\* the classification with the token left out of the rate-limit message
StatusErrorIgnoringToken(response, o, r, token) ==
    IF response.status = 404
    THEN <<MsgNotFoundHead>> \o o \o <<"/">> \o r \o <<MsgNotFoundTail>>
    ELSE IF response.status = 403
    THEN IF response.remaining = "0"
         THEN <<MsgRateLimit, MsgTokenTip, MsgTokenLink>>
         ELSE <<MsgForbidden>>
    ELSE IF response.status # 200
    THEN <<"GitHub API error (Status: ">> \o str(response.status) \o <<")">>
    ELSE None

\* lines 157-174: the error for a repository record that is not a 200, or
\* None for a 200
StatusError(response, o, r, token) ==
    IF response.status = 404
    THEN <<MsgNotFoundHead>> \o o \o <<"/">> \o r \o <<MsgNotFoundTail>>
    ELSE IF response.status = 403
    THEN IF response.remaining = "0"
         THEN IF token = <<>>
              THEN <<MsgRateLimit, MsgTokenTip, MsgTokenLink>>
              ELSE <<MsgRateLimit, MsgWait>>
         ELSE <<MsgForbidden>>
    ELSE IF response.status # 200
    THEN <<"GitHub API error (Status: ">> \o str(response.status) \o <<")">>
    ELSE None

\* lines 178-181: the error for an exception of the repository-record call
ExceptionError(response) ==
    IF response.kind = "Timeout" THEN <<MsgTimedOut>>
    ELSE <<MsgNetwork, response.kind>>

-----------------------------------------------------------------------------
(* fetch_readme                                                             *)

ReadmeCut == 8000

\* base64 text: the marker b64 followed by the characters it encodes
B64 == "<b64>"
b64encode(s) == <<B64>> \o s
IsB64(s) == s # <<>> /\ Head(s) = B64

\* lines 85-96
fetch_readme_result(response) ==
    IF response.kind # "http" THEN None                       \* except Exception
    ELSE IF response.status # 200 THEN None
    ELSE IF response.body = Invalid THEN None                 \* .json() raises
    ELSE IF response.body.t # "obj" THEN None                 \* .get raises
    ELSE LET content == Get(response.body.o, "content", JStr(<<>>))
             encoding == Get(response.body.o, "encoding", JStr(<<"b", "a", "s", "e", "6", "4">>))
         IN  IF encoding = JStr(<<"b", "a", "s", "e", "6", "4">>) /\ Truthy(content)
             THEN IF content.t # "str" THEN None               \* b64decode raises
                  ELSE IF ~IsB64(content.s) THEN None          \* b64decode raises
                  ELSE TakeFirst(Tail(content.s), ReadmeCut)
             ELSE None

-----------------------------------------------------------------------------
(* fetch_repo_structure                                                     *)

IGNORE_FOLDERS ==
    { <<"n", "o", "d", "e", "_", "m", "o", "d", "u", "l", "e", "s">>,
      <<"v", "e", "n", "v">>,
      <<".", "g", "i", "t">>,
      <<"d", "i", "s", "t">>,
      <<"b", "u", "i", "l", "d">>,
      <<"_", "_", "p", "y", "c", "a", "c", "h", "e", "_", "_">>,
      <<".", "v", "e", "n", "v">>,
      <<"e", "n", "v">>,
      <<".", "e", "n", "v">>,
      <<".", "i", "d", "e", "a">>,
      <<".", "v", "s", "c", "o", "d", "e">>,
      <<"v", "e", "n", "d", "o", "r">>,
      <<"t", "a", "r", "g", "e", "t">>,
      <<".", "g", "r", "a", "d", "l", "e">>,
      <<"b", "i", "n">>,
      <<"o", "b", "j">> }

\* the printable characters in code-point order (str comparison)
Ascii ==
    <<" ", "!", Quote, "#", "$", "%", "&", "'", "(", ")", "*", "+", ",",
      "-", ".", "/", "0", "1", "2", "3", "4", "5", "6", "7", "8", "9", ":",
      ";", "<", "=", ">", "?", "@", "A", "B", "C", "D", "E", "F", "G", "H",
      "I", "J", "K", "L", "M", "N", "O", "P", "Q", "R", "S", "T", "U", "V",
      "W", "X", "Y", "Z", "[", "\\", "]", "^", "_", Backtick, "a", "b",
      "c", "d", "e", "f", "g", "h", "i", "j", "k", "l", "m", "n", "o", "p",
      "q", "r", "s", "t", "u", "v", "w", "x", "y", "z", "{", "|", "}", "~">>

ord(c) == 31 + (CHOOSE i \in 1..Len(Ascii) : Ascii[i] = c)

\* a <= b for two str
RECURSIVE StrLeq(_, _)
StrLeq(a, b) ==
    IF a = <<>> THEN TRUE
    ELSE IF b = <<>> THEN FALSE
    ELSE IF Head(a) = Head(b) THEN StrLeq(Tail(a), Tail(b))
    ELSE ord(Head(a)) < ord(Head(b))

TypeDir == JStr(<<"d", "i", "r">>)
TypeFile == JStr(<<"f", "i", "l", "e">>)

\* line 120: key(x) <= key(y) for the sort key (0 if dir else 1, name.lower())
SortKeyLeq(x, y) ==
    LET gx == IF x.type = TypeDir THEN 0 ELSE 1
        gy == IF y.type = TypeDir THEN 0 ELSE 1
    IN  gx < gy \/ (gx = gy /\ StrLeq(lower(x.name), lower(y.name)))

\* list.sort is stable: x goes behind every element whose key is <= its key
RECURSIVE InsertSorted(_, _)
InsertSorted(x, l) ==
    IF l = <<>> THEN <<x>>
    ELSE IF SortKeyLeq(Head(l), x) THEN <<Head(l)>> \o InsertSorted(x, Tail(l))
    ELSE <<x>> \o l

RECURSIVE SortEntries(_, _)
SortEntries(sorted, rest) ==
    IF rest = <<>> THEN sorted
    ELSE SortEntries(InsertSorted(Head(rest), sorted), Tail(rest))

\* the ignore test without the lowering of the name
IsIgnoredExactCase(name) == name \in IGNORE_FOLDERS

\* line 111
IsIgnored(name) == lower(name) \in {lower(f) : f \in IGNORE_FOLDERS}

\* lines 107-118: the entries kept from a list of well-formed items
RECURSIVE KeepEntries(_)
KeepEntries(contents) ==
    IF contents = <<>> THEN <<>>
    ELSE LET item == Head(contents).o
             name == Get(item, "name", JStr(<<>>))
         IN  (IF IsIgnored(name.s) THEN <<>>
              ELSE << [name |-> name.s,
                       type |-> Get(item, "type", JStr(<<>>)),
                       path |-> Get(item, "path", name)] >>)
             \o KeepEntries(Tail(contents))

\* an item the loop body raises on: not a dict (.get), or a name that is
\* no str (.lower)
ItemRaises(item) ==
    \/ item.t # "obj"
    \/ Get(item.o, "name", JStr(<<>>)).t # "str"

\* lines 106-118 raise somewhere: whatever was appended before is dropped,
\* since line 124 returns [].
ContentsRaises(body) ==
    \/ body = Invalid                                        \* .json() raises
    \/ body.t \in {"num", "null", "bool"}                    \* not iterable
    \/ body.t = "str" /\ body.s # <<>>                       \* a character has no .get
    \/ body.t = "obj" /\ DOMAIN body.o # {}                  \* a key has no .get
    \/ body.t = "list" /\ \E i \in 1..Len(body.l) : ItemRaises(body.l[i])

\* lines 101-124
fetch_repo_structure_result(response) ==
    IF response.kind # "http" THEN <<>>                      \* except Exception
    ELSE IF response.status # 200 THEN <<>>
    ELSE IF ContentsRaises(response.body) THEN <<>>          \* except Exception
    ELSE IF response.body.t # "list" THEN <<>>               \* nothing to iterate
    ELSE SortEntries(<<>>, KeepEntries(response.body.l))

-----------------------------------------------------------------------------
(* fetch_dependency_files                                                   *)

DEPENDENCY_FILES ==
    << <<"r", "e", "q", "u", "i", "r", "e", "m", "e", "n", "t", "s", ".", "t", "x", "t">>,
       <<"p", "y", "p", "r", "o", "j", "e", "c", "t", ".", "t", "o", "m", "l">>,
       <<"s", "e", "t", "u", "p", ".", "p", "y">>,
       <<"P", "i", "p", "f", "i", "l", "e">>,
       <<"p", "a", "c", "k", "a", "g", "e", ".", "j", "s", "o", "n">>,
       <<"p", "a", "c", "k", "a", "g", "e", "-", "l", "o", "c", "k", ".", "j", "s", "o", "n">>,
       <<"y", "a", "r", "n", ".", "l", "o", "c", "k">>,
       <<"p", "o", "m", ".", "x", "m", "l">>,
       <<"b", "u", "i", "l", "d", ".", "g", "r", "a", "d", "l", "e">>,
       <<"b", "u", "i", "l", "d", ".", "g", "r", "a", "d", "l", "e", ".", "k", "t", "s">>,
       <<"g", "o", ".", "m", "o", "d">>,
       <<"g", "o", ".", "s", "u", "m">>,
       <<"C", "a", "r", "g", "o", ".", "t", "o", "m", "l">>,
       <<"G", "e", "m", "f", "i", "l", "e">>,
       <<"c", "o", "m", "p", "o", "s", "e", "r", ".", "j", "s", "o", "n">>,
       <<"M", "a", "k", "e", "f", "i", "l", "e">>,
       <<"D", "o", "c", "k", "e", "r", "f", "i", "l", "e">>,
       <<"d", "o", "c", "k", "e", "r", "-", "c", "o", "m", "p", "o", "s", "e", ".", "y", "m", "l">>,
       <<"d", "o", "c", "k", "e", "r", "-", "c", "o", "m", "p", "o", "s", "e", ".", "y",
         "a", "m", "l">> >>

DepCut == 4000

\* line 131
IsDependencyFile(item) ==
    /\ item.type = TypeFile
    /\ \E i \in 1..Len(DEPENDENCY_FILES) : DEPENDENCY_FILES[i] = item.name

\* the first item at or after position i that the loop fetches, or
\* Len(items) + 1 when the loop is over
RECURSIVE NextDependency(_, _)
NextDependency(items, i) ==
    IF i > Len(items) THEN Len(items) + 1
    ELSE IF IsDependencyFile(items[i]) THEN i
    ELSE NextDependency(items, i + 1)

branches == <<"main", "master">>

\* line 133: the path segment of the raw URL (an f-string: str() of the value)
PathOf(item) == IF item.path.t = "str" THEN item.path.s ELSE <<"<", item.path.t, ">">>

\* the store without the cut
StoreDependencyUncut(deps, name, content) == Put(deps, name, content)

\* line 138
StoreDependency(deps, name, content) == Put(deps, name, TakeFirst(content, DepCut))

-----------------------------------------------------------------------------
(* generate_analysis and call_gemini_api                                    *)

MsgGeminiTimeout == "Gemini API request timed out. Please try again."
MsgGeminiNetwork == "Network error calling Gemini API: "
MsgGeminiFormat == "Unexpected response format from Gemini API"
MsgGeminiError == "Gemini API error: "
UnknownError == <<"U", "n", "k", "n", "o", "w", "n", " ", "e", "r", "r", "o", "r">>

\* line 273: ', '.join(topics) raises on a value that is not a list of str
\* (a str joins its characters, a dict its keys)
PromptRaises(data) ==
    LET topics == data.topics
    IN  \/ topics.t \in {"num", "null", "bool"}
        \/ topics.t = "list" /\ \E i \in 1..Len(topics.l) : topics.l[i].t # "str"

\* lines 232-239 for a 200 whose body is a JSON object: <<text, error>>
ExtractText(result) ==
    LET candidates == Get(result, "candidates", JList(<<>>))
    IN  IF "candidates" \in DOMAIN result /\ candidates.t = "list" /\ candidates.l # <<>>
           /\ candidates.l[1].t = "obj"
           /\ "content" \in DOMAIN candidates.l[1].o
           /\ candidates.l[1].o["content"].t = "obj"
           /\ "parts" \in DOMAIN candidates.l[1].o["content"].o
           /\ candidates.l[1].o["content"].o["parts"].t = "list"
           /\ candidates.l[1].o["content"].o["parts"].l # <<>>
           /\ candidates.l[1].o["content"].o["parts"].l[1].t = "obj"
           /\ "text" \in DOMAIN candidates.l[1].o["content"].o["parts"].l[1].o
        THEN <<candidates.l[1].o["content"].o["parts"].l[1].o["text"].s, None>>
        ELSE <<None, <<MsgGeminiFormat>>>>

\* lines 241-242 for a body that is a JSON object
ErrorEnvelope(result) ==
    LET error == Get(result, "error", JObj(EmptyDict))
    IN  <<None, <<MsgGeminiError>> \o Get(error.o, "message", JStr(UnknownError)).s>>

\* lines 228-249: <<text, error>>.  A body that is not JSON makes .json()
\* raise requests.exceptions.JSONDecodeError, a RequestException.
call_gemini_api(response) ==
    IF response.kind = "Timeout" THEN <<None, <<MsgGeminiTimeout>>>>
    ELSE IF response.kind # "http" THEN <<None, <<MsgGeminiNetwork, response.kind>>>>
    ELSE IF response.body = Invalid THEN <<None, <<MsgGeminiNetwork, "JSONDecodeError">>>>
    ELSE IF response.status = 200 THEN ExtractText(response.body.o)
    ELSE ErrorEnvelope(response.body.o)

\* the body of a 200 of the generation endpoint that carries text
Candidates(text) ==
    JObj([a \in {"candidates"} |-> JList(<<
        JObj([b \in {"content"} |-> JObj([c \in {"parts"} |-> JList(<<
            JObj([d \in {"text"} |-> JStr(text)]) >>)]) ]) >>)])

-----------------------------------------------------------------------------
(* Inputs                                                                   *)

Range(s) == {s[i] : i \in 1..Len(s)}

\* --- submitted URLs ---

Owners == {<<"o">>, <<"m", "y", "-", "o", "r", "g">>}
RepoNames == {<<"r">>, <<"m", "y", ".", "g", "i", "t", "h", "u", "b", ".", "i", "o">>,
              <<"a", ".", "g", "i", "t", "l", "a", "b">>}

\* [http(s)://][www.]github.com/<owner>/<repo>[.git][/]
FormUrls ==
    { [kind |-> "form", owner |-> o, segment |-> name \o git,
       text |-> sc \o w \o HostPart \o o \o <<"/">> \o name \o git \o slash] :
         sc \in SchemeOptions, w \in WwwOptions, o \in Owners, name \in RepoNames,
         git \in {<<>>, GitSuffix}, slash \in {<<>>, <<"/">>} }

PlainUrl == <<"h", "t", "t", "p", "s", ":", "/", "/">> \o HostPart \o <<"o", "/", "r">>

\* texts with no github.com/<owner>/<repo> in them
NoMatchUrls ==
    { [kind |-> "nomatch", owner |-> <<>>, segment |-> <<>>, text |-> t] :
        t \in { <<>>, <<" ">>,
                <<"n", "o", "t", " ", "a", " ", "u", "r", "l">>,
                <<"h", "t", "t", "p", "s", ":", "/", "/", "g", "i", "t", "l", "a", "b", ".",
                  "c", "o", "m", "/", "o", "/", "r">>,
                HostPart \o <<"o">>,
                HostPart \o <<"o", "/">>,
                HostPart \o <<"/", "r">>,
                <<"g", "i", "t", "h", "u", "b", "x", "c", "o", "m", "/", "o", "/", "r">> } }

\* a URL with more around it: padding, a deeper path, a query, another scheme
OtherUrls ==
    { [kind |-> "other", owner |-> <<"o">>, segment |-> <<"r">>, text |-> t] :
        t \in { <<" ">> \o PlainUrl \o <<"\n">>,
                PlainUrl \o <<"/", "t", "r", "e", "e", "/", "m", "a", "i", "n">>,
                PlainUrl \o <<"?", "t", "a", "b", "=", "r", "e", "a", "d", "m", "e">>,
                PlainUrl \o <<"#", "r", "e", "a", "d", "m", "e">>,
                <<"f", "t", "p", ":", "/", "/">> \o HostPart \o <<"o", "/", "r">>,
                PlainUrl \o <<"/", "/">> } }

UrlInputs == FormUrls \cup NoMatchUrls \cup OtherUrls

\* the few URLs of the whole-request specification
RequestUrls ==
    {u \in UrlInputs : u.text \in {<<>>, <<"n", "o", "t", " ", "a", " ", "u", "r", "l">>, PlainUrl}}
FixedUrl == {u \in UrlInputs : u.text = PlainUrl}

Tokens == {<<>>, <<"g", "h", "p", "_", "1">>}

\* --- the repository record ---

RepoFull ==
    JObj([k \in {"description", "language", "topics", "stargazers_count", "forks_count"} |->
            CASE k = "description" -> JStr(<<"A", " ", "r", "e", "p", "o">>)
              [] k = "language" -> JStr(<<"P", "y", "t", "h", "o", "n">>)
              [] k = "topics" -> JList(<<JStr(<<"c", "l", "i">>)>>)
              [] k = "stargazers_count" -> JNum(7)
              [] k = "forks_count" -> JNum(1)])
RepoNullTopics == JObj([k \in {"topics"} |-> JNull])

RepoOk == {Http(200, "59", RepoFull)}
RepoResponses ==
    { Http(200, "59", RepoFull), Http(200, "59", RepoNullTopics),
      Http(200, "59", JList(<<>>)), Http(200, "unknown", Invalid),
      Http(404, "58", JObj(EmptyDict)),
      Http(403, "0", JObj(EmptyDict)), Http(403, "12", JObj(EmptyDict)),
      Http(403, "unknown", Invalid),
      Http(500, "unknown", Invalid), Http(301, "57", JObj(EmptyDict)),
      Timeout, ConnectionError }

\* --- the README ---

ReadmeText == <<"#", " ", "r">>
ReadmeBody(content) ==
    JObj([k \in {"content", "encoding"} |->
            IF k = "content" THEN content ELSE JStr(<<"b", "a", "s", "e", "6", "4">>)])
ReadmeOk == {Http(200, "59", ReadmeBody(JStr(b64encode(ReadmeText))))}
ReadmeResponses ==
    ReadmeOk \cup
    { Http(200, "59", ReadmeBody(JStr(<<"%", "%">>))), Http(200, "59", JList(<<>>)),
      Http(404, "59", JObj(EmptyDict)), Timeout, ConnectionError }

\* --- the directory listing ---

\* the longest directory listing
MaxEntries == 3

\* the sequences of at most n different elements of pool
RECURSIVE DistinctSeqs(_, _)
DistinctSeqs(pool, n) ==
    IF n = 0 THEN {<<>>}
    ELSE LET shorter == DistinctSeqs(pool, n - 1)
         IN  shorter \cup
             UNION { {Append(s, x) : x \in pool \ Range(s)} :
                     s \in {q \in shorter : Len(q) = n - 1} }

Item(name, type) ==
    JObj([k \in {"name", "type", "path"} |-> IF k = "type" THEN JStr(type) ELSE JStr(name)])

Dir == <<"d", "i", "r">>
File == <<"f", "i", "l", "e">>
N_src == <<"s", "r", "c">>
N_Makefile == <<"M", "a", "k", "e", "f", "i", "l", "e">>
N_go_mod == <<"g", "o", ".", "m", "o", "d">>
N_node_modules == <<"n", "o", "d", "e", "_", "m", "o", "d", "u", "l", "e", "s">>

\* entries of the listings fetch_repo_structure is checked on
StructurePool ==
    { Item(N_src, Dir),
      Item(<<"N", "o", "d", "e", "_", "M", "o", "d", "u", "l", "e", "s">>, Dir),
      Item(<<"b", "i", "n">>, File),
      Item(<<"R", "E", "A", "D", "M", "E", ".", "m", "d">>, File),
      Item(<<"a", "p", "p", ".", "p", "y">>, File),
      Item(<<"D", "o", "c", "s">>, Dir),
      Item(<<"d", "o", "c", "s">>, Dir),
      Item(<<"Z", "e", "d">>, <<"s", "y", "m", "l", "i", "n", "k">>) }

\* entries of the listings fetch_dependency_files is checked on
DependencyPool ==
    { Item(N_Makefile, File),
      Item(<<"m", "a", "k", "e", "f", "i", "l", "e">>, File),
      Item(N_go_mod, File),
      Item(<<"D", "o", "c", "k", "e", "r", "f", "i", "l", "e">>, Dir),
      Item(N_src, Dir) }

\* one listing of the entries of a set
RECURSIVE ListingOf(_)
ListingOf(S) ==
    IF S = {} THEN <<>>
    ELSE LET x == CHOOSE y \in S : TRUE IN <<x>> \o ListingOf(S \ {x})

\* bodies of a 200 that are no listing of well-formed entries
MalformedContents ==
    { Invalid, JObj([k \in {"message"} |-> JStr(<<"q", "u", "o", "t", "a">>)]),
      JList(<<Item(N_src, Dir), JStr(N_src)>>),
      JList(<<Item(N_src, Dir), JObj([k \in {"name"} |-> JNull])>>),
      JList(<<JObj([k \in {"type"} |-> JStr(File)]), Item(N_src, Dir)>>) }

ContentsFailures ==
    { Http(404, "59", JObj(EmptyDict)), Http(500, "unknown", Invalid), Timeout,
      ConnectionError }

StructureResponses ==
    { Http(200, "59", JList(l)) : l \in DistinctSeqs(StructurePool, MaxEntries) }
    \cup { Http(200, "59", b) : b \in MalformedContents } \cup ContentsFailures

\* fetch_repo_structure sorts the listing, so one order per set of entries
\* is all fetch_dependency_files can tell apart
DependencyListings ==
    { Http(200, "59", JList(ListingOf(S))) :
        S \in {T \in SUBSET DependencyPool : Cardinality(T) <= MaxEntries} }

RequestListing ==
    Http(200, "59", JList(<<Item(N_Makefile, File), Item(N_node_modules, Dir), Item(N_src, Dir)>>))
ContentsOk == {RequestListing}
ContentsResponses ==
    { RequestListing, Http(200, "59", JList(<<>>)), Http(200, "59", Invalid),
      Http(404, "59", JObj(EmptyDict)), Timeout, ConnectionError }

\* --- raw files ---

\* the text of a file on a branch: n characters that name the branch
FileText(branch, n) == [i \in 1..n |-> IF branch = "main" THEN "m" ELSE "s"]

RawFailures == {Http(404, "unknown", JText(<<"4", "0", "4">>)), Timeout}
RawResponses(branch) == {Http(200, "unknown", JText(FileText(branch, 2)))} \cup RawFailures
LongRawResponses(branch) ==
    { Http(200, "unknown", JText(FileText(branch, n))) : n \in {2, DepCut, DepCut + 1} }
    \cup RawFailures

\* --- language statistics ---

LanguagesOk == {Http(200, "59", JObj([k \in {"Python"} |-> JNum(9)]))}
LanguagesResponses ==
    LanguagesOk \cup
    { Http(200, "59", Invalid), Http(404, "59", JObj(EmptyDict)), Timeout, ConnectionError }

\* --- the generation call ---

NoParts == [kind |-> "none", doc |-> JNull, wrap |-> "", n |-> 0]
PartsOf(input) == [kind |-> input.kind, doc |-> input.doc, wrap |-> input.wrap, n |-> input.n]

GeminiTexts(inputs) ==
    { [response |-> Http(200, "unknown", Candidates(in.text)), parts |-> PartsOf(in)] :
        in \in inputs }
GeminiFailures ==
    { [response |-> r, parts |-> NoParts] :
        r \in { Http(200, "unknown", JObj(EmptyDict)),
                Http(200, "unknown", Invalid),
                Http(429, "unknown",
                     JObj([k \in {"error"} |->
                             JObj([m \in {"message"} |-> JStr(<<"q", "u", "o", "t", "a">>)])])),
                Http(500, "unknown", JObj(EmptyDict)),
                Timeout, ConnectionError } }

FullDoc ==
    BuildDoc(JStr(A_to_B), JList(<<JStr(<<"G", "o">>), JStr(<<"R", "e", "d", "i", "s">>)>>),
             [k \in OtherKeys |-> JStr(KeyChars(k))])

\* the few texts of the whole-request specification
RequestTexts ==
    { in \in TextInputs :
        \/ in.kind = "json" /\ in.doc = FullDoc /\ in.wrap \in {"plain", "json", "JSON"}
        \/ in.kind = "json" /\ in.doc = JList(<<>>) /\ in.wrap = "plain"
        \/ in.kind = "prose" /\ in.wrap = "plain" /\ in.n \in {0, SummaryCut + 1}
        \/ in.kind = "cut" /\ in.wrap = "open" /\ in.n = 9 }

-----------------------------------------------------------------------------
(* The request handler analyze() and what it calls                          *)

EmptyDeps == [x \in {} |-> <<>>]
NoPage == [template |-> "", error_type |-> "", error |-> None, status |-> 0]

\* render_template('error.html', error=..., error_type=...)
ErrorPage(error, error_type) ==
    [template |-> "error.html", error_type |-> error_type, error |-> error, status |-> 200]
\* lines 435-439: what an uncaught exception of the handler ends in
ServerError ==
    [template |-> "error.html", error_type |-> "500", error |-> <<MsgInternal>>,
     status |-> 500]
\* lines 406-411
ResultsPage ==
    [template |-> "results.html", error_type |-> "", error |-> None, status |-> 200]

InitWith(urls, tokens) ==
    /\ pc = "start"
    /\ GITHUB_TOKEN \in tokens
    /\ \E u \in urls :
          /\ github_url = u.text
          /\ url_parts = [kind |-> u.kind, owner |-> u.owner, segment |-> u.segment]
    /\ owner = None
    /\ repo = None
    /\ calls = <<>>
    /\ pending = {}
    /\ received = <<>>
    /\ repo_info = NoneDict
    /\ readme = None
    /\ structure = <<>>
    /\ dependencies = EmptyDeps
    /\ dep_pos = [i |-> 0, b |-> 1]
    /\ languages = NoneDict
    /\ repo_data = NoneDict
    /\ fetch_error = None
    /\ analysis_text = None
    /\ text_parts = NoParts
    /\ gemini_error = None
    /\ sections = NoneDict
    /\ page = NoPage

\* requests.get / requests.post: the call goes out and the handler waits
Issue(call) ==
    /\ calls' = Append(calls, call)
    /\ pending' = pending \cup {call}
    /\ received' = received

\* the call returns, or raises
Return(call, response) ==
    /\ call \in pending
    /\ pending' = pending \ {call}
    /\ received' = Append(received, <<call, response>>)
    /\ calls' = calls

\* the handler returns the page
Finish(p) ==
    /\ page' = p
    /\ pc' = "done"

\* lines 376-388
Validate ==
    /\ pc = "start"
    /\ LET url == strip(github_url)
           info == extract_repo_info(url)
       IN  IF url = <<>>
           THEN /\ Finish(ErrorPage(<<MsgEmptyUrl>>, "validation"))
                /\ UNCHANGED <<owner, repo>>
           ELSE /\ owner' = info[1]
                /\ repo' = info[2]
                /\ IF info[1] \in {None, <<>>} \/ info[2] \in {None, <<>>}
                   THEN Finish(ErrorPage(<<MsgInvalidUrl>>, "validation"))
                   ELSE pc' = "repo_record" /\ page' = page
    /\ UNCHANGED <<GITHUB_TOKEN, github_url, url_parts, calls, pending, received,
                   repo_info, readme, structure, dependencies, dep_pos, languages,
                   repo_data, fetch_error, analysis_text, text_parts, gemini_error,
                   sections>>

\* line 152
IssueRepo ==
    /\ pc = "repo_record"
    /\ Issue(RepoCall)
    /\ pc' = "repo_record_wait"
    /\ UNCHANGED <<GITHUB_TOKEN, github_url, url_parts, owner, repo, repo_info, readme,
                   structure, dependencies, dep_pos, languages, repo_data, fetch_error,
                   analysis_text, text_parts, gemini_error, sections, page>>

\* lines 154-181, and lines 392-395 of analyze when the fetch failed.
\* response.json() of a body that is not JSON raises
\* requests.exceptions.JSONDecodeError, a RequestException: line 180
\* catches it.
ReturnRepo(responses) ==
    /\ pc = "repo_record_wait"
    /\ \E response \in responses :
          /\ Return(RepoCall, response)
          /\ IF response.kind # "http"
             THEN /\ fetch_error' = ExceptionError(response)
                  /\ Finish(ErrorPage(fetch_error', "github"))
                  /\ repo_info' = repo_info
             ELSE IF response.status # 200
             THEN /\ fetch_error' = StatusError(response, owner, repo, GITHUB_TOKEN)
                  /\ Finish(ErrorPage(fetch_error', "github"))
                  /\ repo_info' = repo_info
             ELSE IF response.body = Invalid
             THEN /\ fetch_error' = <<MsgNetwork, "JSONDecodeError">>
                  /\ Finish(ErrorPage(fetch_error', "github"))
                  /\ repo_info' = repo_info
             ELSE /\ repo_info' = response.body
                  /\ pc' = "readme"
                  /\ UNCHANGED <<fetch_error, page>>
    /\ UNCHANGED <<GITHUB_TOKEN, github_url, url_parts, owner, repo, readme, structure,
                   dependencies, dep_pos, languages, repo_data, analysis_text,
                   text_parts, gemini_error, sections>>

\* line 85
IssueReadme ==
    /\ pc = "readme"
    /\ Issue(ReadmeCall)
    /\ pc' = "readme_wait"
    /\ UNCHANGED <<GITHUB_TOKEN, github_url, url_parts, owner, repo, repo_info, readme,
                   structure, dependencies, dep_pos, languages, repo_data, fetch_error,
                   analysis_text, text_parts, gemini_error, sections, page>>

\* lines 86-96 and 183
ReturnReadme(responses) ==
    /\ pc = "readme_wait"
    /\ \E response \in responses :
          /\ Return(ReadmeCall, response)
          /\ readme' = fetch_readme_result(response)
    /\ pc' = "structure"
    /\ UNCHANGED <<GITHUB_TOKEN, github_url, url_parts, owner, repo, repo_info,
                   structure, dependencies, dep_pos, languages, repo_data, fetch_error,
                   analysis_text, text_parts, gemini_error, sections, page>>

\* line 104
IssueStructure ==
    /\ pc = "structure"
    /\ Issue(ContentsCall)
    /\ pc' = "structure_wait"
    /\ UNCHANGED <<GITHUB_TOKEN, github_url, url_parts, owner, repo, repo_info, readme,
                   structure, dependencies, dep_pos, languages, repo_data, fetch_error,
                   analysis_text, text_parts, gemini_error, sections, page>>

\* where fetch_dependency_files goes on from item i: the next fetch, or the
\* end of the loop (line 143) and on to line 187
DepPosition(items, i) == [i |-> NextDependency(items, i), b |-> 1]
AfterItem(items, i) ==
    IF NextDependency(items, i) <= Len(items) THEN "deps" ELSE "languages"

\* lines 105-124 and 184, and lines 128-131 up to the first fetch
ReturnStructure(responses) ==
    /\ pc = "structure_wait"
    /\ \E response \in responses :
          /\ Return(ContentsCall, response)
          /\ structure' = fetch_repo_structure_result(response)
    /\ dependencies' = EmptyDeps
    /\ dep_pos' = DepPosition(structure', 1)
    /\ pc' = AfterItem(structure', 1)
    /\ UNCHANGED <<GITHUB_TOKEN, github_url, url_parts, owner, repo, repo_info, readme,
                   languages, repo_data, fetch_error, analysis_text, text_parts,
                   gemini_error, sections, page>>

\* lines 132-135
IssueDep ==
    /\ pc = "deps"
    /\ Issue(RawCall(branches[dep_pos.b], PathOf(structure[dep_pos.i])))
    /\ pc' = "deps_wait"
    /\ UNCHANGED <<GITHUB_TOKEN, github_url, url_parts, owner, repo, repo_info, readme,
                   structure, dependencies, dep_pos, languages, repo_data, fetch_error,
                   analysis_text, text_parts, gemini_error, sections, page>>

\* the position after a fetch that is tried again when it fails
AfterFetchRetrying(items, pos, ok) ==
    IF ~ok THEN pos ELSE DepPosition(items, pos.i + 1)

\* The position after the fetch of branch b of item i returned: a 200
\* breaks out of the branch loop (line 139), anything else goes on to the
\* next branch (line 141, or the end of the loop body), and after the last
\* branch to the next item.
AfterFetch(items, pos, ok) ==
    IF ~ok /\ pos.b < Len(branches)
    THEN [i |-> pos.i, b |-> pos.b + 1]
    ELSE DepPosition(items, pos.i + 1)

\* lines 136-143
ReturnDep(responses) ==
    /\ pc = "deps_wait"
    /\ \E response \in responses :
          LET item == structure[dep_pos.i]
              ok == response.kind = "http" /\ response.status = 200
          IN  /\ Return(RawCall(branches[dep_pos.b], PathOf(item)), response)
              /\ dependencies' = IF ok
                                 THEN StoreDependency(dependencies, item.name, response.body.s)
                                 ELSE dependencies
              /\ dep_pos' = AfterFetch(structure, dep_pos, ok)
              /\ pc' = IF dep_pos'.i <= Len(structure) THEN "deps" ELSE "languages"
    /\ UNCHANGED <<GITHUB_TOKEN, github_url, url_parts, owner, repo, repo_info, readme,
                   structure, languages, repo_data, fetch_error, analysis_text,
                   text_parts, gemini_error, sections, page>>

\* line 190
IssueLanguages ==
    /\ pc = "languages"
    /\ Issue(LanguagesCall)
    /\ pc' = "languages_wait"
    /\ UNCHANGED <<GITHUB_TOKEN, github_url, url_parts, owner, repo, repo_info, readme,
                   structure, dependencies, dep_pos, languages, repo_data, fetch_error,
                   analysis_text, text_parts, gemini_error, sections, page>>

\* lines 187-194
LanguagesOf(response) ==
    IF response.kind = "http" /\ response.status = 200 /\ response.body # Invalid
    THEN response.body
    ELSE JObj(EmptyDict)

\* lines 196-206, for a repo_info that is a dict
RepoData(info, readme_, structure_, dependencies_, languages_) ==
    [readme |-> readme_,
     structure |-> structure_,
     dependencies |-> dependencies_,
     languages_stats |-> languages_,
     description |-> Get(info, "description", JStr(<<>>)),
     language |-> Get(info, "language", JStr(<<>>)),
     topics |-> Get(info, "topics", JList(<<>>)),
     stars |-> Get(info, "stargazers_count", JNum(0)),
     forks |-> Get(info, "forks_count", JNum(0))]

\* lines 191-206: the last call of fetch_github_data returns and the
\* function returns; repo_info.get raises on a value that is no dict, and
\* nothing catches it.
ReturnLanguages(responses) ==
    /\ pc = "languages_wait"
    /\ \E response \in responses :
          /\ Return(LanguagesCall, response)
          /\ languages' = LanguagesOf(response)
    /\ IF repo_info.t # "obj"
       THEN /\ Finish(ServerError)
            /\ UNCHANGED <<repo_data, fetch_error>>
       ELSE /\ repo_data' = RepoData(repo_info.o, readme, structure, dependencies, languages')
            /\ fetch_error' = None
            /\ pc' = "generate"
            /\ page' = page
    /\ UNCHANGED <<GITHUB_TOKEN, github_url, url_parts, owner, repo, repo_info, readme,
                   structure, dependencies, dep_pos, analysis_text, text_parts,
                   gemini_error, sections>>

\* lines 397 and 252-309, 229: the prompt is built and posted; building it
\* raises on topics that cannot be joined, and nothing catches that.
IssueGemini ==
    /\ pc = "generate"
    /\ IF PromptRaises(repo_data)
       THEN /\ Finish(ServerError)
            /\ UNCHANGED <<calls, pending, received>>
       ELSE /\ Issue(GeminiCall)
            /\ pc' = "gemini_wait"
            /\ page' = page
    /\ UNCHANGED <<GITHUB_TOKEN, github_url, url_parts, owner, repo, repo_info, readme,
                   structure, dependencies, dep_pos, languages, repo_data, fetch_error,
                   analysis_text, text_parts, gemini_error, sections>>

\* lines 231-249 and 399-402
ReturnGemini(outcomes) ==
    /\ pc = "gemini_wait"
    /\ \E outcome \in outcomes :
          LET result == call_gemini_api(outcome.response)
          IN  /\ Return(GeminiCall, outcome.response)
              /\ analysis_text' = result[1]
              /\ gemini_error' = result[2]
              /\ text_parts' = outcome.parts
              /\ IF result[2] # None
                 THEN Finish(ErrorPage(result[2], "gemini"))
                 ELSE pc' = "parse" /\ page' = page
    /\ UNCHANGED <<GITHUB_TOKEN, github_url, url_parts, owner, repo, repo_info, readme,
                   structure, dependencies, dep_pos, languages, repo_data, fetch_error,
                   sections>>

\* lines 404-411: an exception out of parse_analysis is not caught
Parse ==
    /\ pc = "parse"
    /\ sections' = parse_analysis(analysis_text)
    /\ Finish(IF IsFault(sections') THEN ServerError ELSE ResultsPage)
    /\ UNCHANGED <<GITHUB_TOKEN, github_url, url_parts, owner, repo, calls, pending,
                   received, repo_info, readme, structure, dependencies, dep_pos,
                   languages, repo_data, fetch_error, analysis_text, text_parts,
                   gemini_error>>

-----------------------------------------------------------------------------
(* Specifications                                                           *)

\* One request, with every outcome of every call.
RequestOutcomes == GeminiTexts(RequestTexts) \cup GeminiFailures
Init == InitWith(RequestUrls, Tokens)
Next ==
    \/ Validate
    \/ IssueRepo
    \/ ReturnRepo(RepoResponses)
    \/ IssueReadme
    \/ ReturnReadme(ReadmeResponses)
    \/ IssueStructure
    \/ ReturnStructure(ContentsResponses)
    \/ IssueDep
    \/ ReturnDep(RawResponses(branches[dep_pos.b]))
    \/ IssueLanguages
    \/ ReturnLanguages(LanguagesResponses)
    \/ IssueGemini
    \/ ReturnGemini(RequestOutcomes)
    \/ Parse
Spec == Init /\ [][Next]_vars

\* extract_repo_info on the submitted URLs
InitUrl == InitWith(UrlInputs, Tokens)
NextUrl == Validate
SpecUrl == InitUrl /\ [][NextUrl]_vars


\* The phase specifications below run the same handler from the same start;
\* the calls before the phase under study answer with a plain 200, and the
\* call under study answers with every response of a larger set.
InitFixed == InitWith(FixedUrl, {<<>>})

\* fetch_repo_structure on every listing of at most MaxEntries entries
NextStructure ==
    \/ Validate
    \/ IssueRepo
    \/ ReturnRepo(RepoOk)
    \/ IssueReadme
    \/ ReturnReadme(ReadmeOk)
    \/ IssueStructure
    \/ ReturnStructure(StructureResponses)
SpecStructure == InitFixed /\ [][NextStructure]_vars

\* fetch_dependency_files on every listing, with every outcome per branch
NextDeps ==
    \/ Validate
    \/ IssueRepo
    \/ ReturnRepo(RepoOk)
    \/ IssueReadme
    \/ ReturnReadme(ReadmeOk)
    \/ IssueStructure
    \/ ReturnStructure(DependencyListings)
    \/ IssueDep
    \/ ReturnDep(LongRawResponses(branches[dep_pos.b]))
SpecDeps == InitFixed /\ [][NextDeps]_vars

\* parse_analysis on every text
TextOutcomes == GeminiTexts(TextInputs)
NextParse ==
    \/ Validate
    \/ IssueRepo
    \/ ReturnRepo(RepoOk)
    \/ IssueReadme
    \/ ReturnReadme(ReadmeOk)
    \/ IssueStructure
    \/ ReturnStructure(ContentsOk)
    \/ IssueDep
    \/ ReturnDep({Http(200, "unknown", JText(FileText(branches[dep_pos.b], 2)))})
    \/ IssueLanguages
    \/ ReturnLanguages(LanguagesOk)
    \/ IssueGemini
    \/ ReturnGemini(TextOutcomes)
    \/ Parse
SpecParse == InitFixed /\ [][NextParse]_vars


-----------------------------------------------------------------------------
(* Properties                                                               *)

\* parse_analysis was called and the handler is over
Parsed == pc = "done" /\ text_parts.kind # "none"

SixKeys == {default_keys[i] : i \in 1..Len(default_keys)}

\* s with one trailing ".git" taken off
WithoutGitSuffix(s) == IF endswith(s, GitSuffix) THEN DropLast(s, Len(GitSuffix)) ELSE s

\* C2: for a URL [http(s)://][www.]github.com/<owner>/<repo>[.git][/],
\* extract_repo_info returns the owner and the repository segment with only
\* its trailing ".git" removed; for a text with no such URL in it, it
\* returns (None, None).
C2_ExtractExact ==
    pc # "start" =>
        /\ url_parts.kind = "form" =>
              /\ owner = url_parts.owner
              /\ repo = WithoutGitSuffix(url_parts.segment)
        /\ url_parts.kind = "nomatch" => owner = None /\ repo = None

\* C1: for every text the generation call returns, parse_analysis returns a
\* record with all six fields, and the request does not end in a 500.
C1_AlwaysSixFields ==
    Parsed =>
        /\ ~IsFault(sections)
        /\ SixKeys \subseteq DOMAIN sections
        /\ page.status # 500


\* the diagram value of a text that is a JSON object, and what came back
GivenDiagram == text_parts.doc.o["architecture_mermaid"].s
ReturnedDiagram == sections["architecture_mermaid"].s

\* a JSON object with a str diagram was parsed and a record came back
DiagramParsed ==
    /\ Parsed
    /\ text_parts.kind = "json"
    /\ text_parts.wrap = "plain"
    /\ text_parts.doc.t = "obj"
    /\ "architecture_mermaid" \in DOMAIN text_parts.doc.o
    /\ text_parts.doc.o["architecture_mermaid"].t = "str"
    /\ ~IsFault(sections)

\* the diagram value without fence markers and surrounding whitespace
Trimmed(value) == strip(replace(replace(value, Fence \o MermaidTag, <<>>), Fence, <<>>))

\* C3: a diagram value that case-insensitively equals "not available" comes
\* back as the empty string; a value already beginning with "graph" comes
\* back unchanged; any other value that is non-empty after fence removal
\* and trimming comes back with "graph TD;\n" in front.
C3_DiagramRepair ==
    DiagramParsed =>
        IF lower(GivenDiagram) = lower(NotAvailable)
        THEN ReturnedDiagram = <<>>
        ELSE IF startswith(GivenDiagram, <<"g", "r", "a", "p", "h">>)
        THEN ReturnedDiagram = GivenDiagram
        ELSE Trimmed(GivenDiagram) # <<>> =>
                ReturnedDiagram = GraphHeader \o Trimmed(GivenDiagram)

\* the wrappings with a leading and a trailing fence marker
FencedWraps == {"bare", "json", "json_tight", "JSON", "javascript"}

\* C4 as claimed: a JSON text wrapped in a leading fence marker, bare or
\* with any language tag, and a trailing fence marker parses to the same
\* result as the JSON text alone.
C4_AnyTagParsesAlike ==
    (Parsed /\ text_parts.kind = "json" /\ text_parts.wrap \in FencedWraps) =>
        sections = parse_analysis(Dumps(text_parts.doc))

\* C4 as amended: a JSON text wrapped in a leading fence marker that is
\* bare or tagged with exactly the lowercase tag json, and a trailing fence
\* marker, parses to the same result as the JSON text alone.
C4_JsonTagParsesAlike ==
    (Parsed /\ text_parts.kind = "json" /\ text_parts.wrap \in {"bare", "json", "json_tight"}) =>
        sections = parse_analysis(Dumps(text_parts.doc))

\* a text in a json-tagged fence was parsed to the record of its JSON object
C4_Witness ==
    /\ Parsed
    /\ text_parts.kind = "json"
    /\ text_parts.wrap = "json"
    /\ text_parts.doc = FullDoc
    /\ ~IsFault(sections)
    /\ sections["tech_stack"] = JStr(<<"G", "o", ",", " ", "R", "e", "d", "i", "s">>)
    /\ sections["architecture_mermaid"] = JStr(GraphHeader \o A_to_B)

\* the text is not JSON once the fence markers the code knows are off
NotJson ==
    \/ text_parts.kind \in {"prose", "cut"}
    \/ text_parts.kind = "json" /\ text_parts.wrap \in {"JSON", "javascript"}

\* C7: when the generation call succeeds with a text that is not valid
\* JSON, the request renders the results page, and the record has exactly
\* the six fields: the diagram empty, the summary holding the first 100
\* characters of the raw text followed by "...", the other four reading
\* "Error parsing analysis".
C7_ParseErrorDegrades ==
    (Parsed /\ NotJson) =>
        /\ page = ResultsPage
        /\ DOMAIN sections = SixKeys
        /\ sections["architecture_mermaid"] = JStr(<<>>)
        /\ \A k \in SixKeys \ {"architecture_mermaid", "recruiter_summary"} :
              sections[k] = JStr(ErrorParsing)
        /\ sections["recruiter_summary"].t = "str"
        /\ endswith(sections["recruiter_summary"].s,
                    SubSeq(analysis_text, 1, Min(Len(analysis_text), 100)) \o Ellipsis)

\* a text longer than the cut was rendered as a parse error
C7_Witness ==
    /\ Parsed
    /\ text_parts.kind = "prose"
    /\ Len(analysis_text) > SummaryCut
    /\ page = ResultsPage
    /\ Len(sections["recruiter_summary"].s) = Len(ErrorParsing) + 2 + SummaryCut + 3


\* the response of the repository-record call, once it has returned
RepoReturned == Len(received) >= 1
RepoResponse == received[1][2]

\* the request ended right after the repository-record call
RepoFetchFailed == pc = "done" /\ Len(received) = 1

\* sub occurs in s
Occurs(sub, s) == \E i \in 0..(Len(s) - Len(sub)) : SubSeq(s, i + 1, i + Len(sub)) = sub

\* C5: a 404 of the repository record ends in the error page naming the
\* requested owner/repo as not found; a 403 with remaining quota "0" in the
\* rate-limit message, with the token tip exactly when no token is
\* configured and the wait text exactly when one is; a 403 with any other
\* remaining quota in the access-forbidden message; and none of them in a 500.
C5_FetchFailureClassified ==
    (RepoFetchFailed /\ RepoResponse.kind = "http" /\ RepoResponse.status \in {403, 404}) =>
        /\ page.template = "error.html"
        /\ page.error_type = "github"
        /\ page.status # 500
        /\ page.error = fetch_error
        /\ RepoResponse.status = 404 =>
              /\ Occurs(url_parts.owner \o <<"/">> \o url_parts.segment, page.error)
              /\ MsgNotFoundTail \in Range(page.error)
        /\ (RepoResponse.status = 403 /\ RepoResponse.remaining = "0") =>
              /\ MsgRateLimit \in Range(page.error)
              /\ MsgTokenTip \in Range(page.error) <=> GITHUB_TOKEN = <<>>
              /\ MsgWait \in Range(page.error) <=> GITHUB_TOKEN # <<>>
        /\ (RepoResponse.status = 403 /\ RepoResponse.remaining # "0") =>
              page.error = <<MsgForbidden>>

\* a rate-limited request with a token configured was told to wait
C5_Witness ==
    /\ RepoFetchFailed
    /\ RepoResponse.kind = "http"
    /\ RepoResponse.status = 403
    /\ RepoResponse.remaining = "0"
    /\ GITHUB_TOKEN # <<>>
    /\ page.error = <<MsgRateLimit, MsgWait>>

\* fetch_github_data has returned or raised
MetadataStageOver ==
    /\ RepoReturned
    /\ pc \in {"generate", "gemini_wait", "parse", "done"}

\* C6: the metadata stage fails if and only if the repository-record call
\* fails: a 200 gives a metadata record and no error whatever the other
\* calls did, and anything else gives an error message and no metadata.
C6_MetadataFailsIffRepoFails ==
    MetadataStageOver =>
        IF RepoResponse.kind = "http" /\ RepoResponse.status = 200
        THEN repo_data # NoneDict /\ fetch_error = None
        ELSE repo_data = NoneDict /\ fetch_error # None

\* the place of a call in the order of one request
Rank(call) ==
    CASE call.endpoint = "repos" -> 1
      [] call.endpoint = "readme" -> 2
      [] call.endpoint = "contents" -> 3
      [] call.endpoint = "raw" -> 4
      [] call.endpoint = "languages" -> 5
      [] call.endpoint = "generateContent" -> 6

Returned == {received[i][1] : i \in 1..Len(received)}

\* C10: calls go out one at a time, each after the one before has returned
\* or failed, in the order repository record, README, directory listing,
\* dependency files, language stats, generation call; no call is issued
\* twice; none is issued for an empty or unparseable URL; and the
\* generation call goes out only after the metadata stage succeeded.
C10_CallOrder ==
    /\ Cardinality(pending) <= 1
    /\ \A i \in 1..Len(calls) : calls[i] \in pending => i = Len(calls)
    /\ \A i \in 1..Len(calls) : i < Len(calls) => calls[i] \in Returned
    /\ \A i, j \in 1..Len(calls) : i < j =>
          /\ calls[i] # calls[j]
          /\ Rank(calls[i]) <= Rank(calls[j])
    /\ \A i \in 1..Len(calls) :
          /\ i <= 3 => Rank(calls[i]) = i
          /\ Rank(calls[i]) = 6 => \E j \in 1..(i - 1) : Rank(calls[j]) = 5
    /\ url_parts.kind = "nomatch" => calls = <<>>
    /\ GeminiCall \in Range(calls) =>
          /\ repo_data # NoneDict
          /\ fetch_error = None
          /\ LanguagesCall \in Returned

\* a request that made every call, both branches of a file among them
C10_Witness ==
    /\ pc = "done"
    /\ page = ResultsPage
    /\ Len(calls) = 7
    /\ calls[4] = RawCall("main", N_Makefile)
    /\ calls[5] = RawCall("master", N_Makefile)
    /\ received[4][2].kind = "Timeout"


\* the response the call got, for a call that has returned
ResponseTo(call) == received[CHOOSE i \in 1..Len(received) : received[i][1] = call][2]
Got200(call) ==
    call \in Returned /\ ResponseTo(call).kind = "http" /\ ResponseTo(call).status = 200

\* the entries of the listing that name a recognized dependency file
Recognized ==
    {e \in Range(structure) : e.type = TypeFile /\ e.name \in Range(DEPENDENCY_FILES)}

\* fetch_dependency_files has returned
DependenciesFetched == pc = "languages" /\ Len(received) >= 3

\* C8: the keys of the mapping are exactly the names of the entries of
\* kind file whose name is, case-sensitively, one of DEPENDENCY_FILES and
\* whose main or master fetch returned 200; each value is the content of
\* the first such branch, main before master, cut to at most 4000
\* characters; master is not requested once main returned 200.
C8_DependencyMapping ==
    DependenciesFetched =>
        /\ DOMAIN dependencies =
              {e.name : e \in {r \in Recognized :
                                  \/ Got200(RawCall("main", PathOf(r)))
                                  \/ Got200(RawCall("master", PathOf(r)))}}
        /\ \A e \in Recognized :
              LET main == RawCall("main", PathOf(e))
                  master == RawCall("master", PathOf(e))
              IN  /\ Got200(main) =>
                        /\ master \notin Range(calls)
                        /\ dependencies[e.name] =
                              SubSeq(ResponseTo(main).body.s, 1,
                                     Min(4000, Len(ResponseTo(main).body.s)))
                  /\ (~Got200(main) /\ Got200(master)) =>
                        dependencies[e.name] =
                              SubSeq(ResponseTo(master).body.s, 1,
                                     Min(4000, Len(ResponseTo(master).body.s)))
        /\ \A name \in DOMAIN dependencies : Len(dependencies[name]) <= 4000
        /\ \A c \in Range(calls) :
              c.endpoint = "raw" => \E e \in Recognized : PathOf(e) = c.path

\* a listing with two recognized files, a file whose name differs in case
\* only: one file came from main, the other, longer than the cut, from master
C8_Witness ==
    /\ DependenciesFetched
    /\ Len(structure) = 3
    /\ DOMAIN dependencies = {N_Makefile, N_go_mod}
    /\ \E e \in Range(structure) : e.name = <<"m", "a", "k", "e", "f", "i", "l", "e">>
    /\ Got200(RawCall("main", N_Makefile))
    /\ ~Got200(RawCall("main", N_go_mod))
    /\ Len(ResponseTo(RawCall("master", N_go_mod)).body.s) > DepCut
    /\ Len(dependencies[N_go_mod]) = DepCut

\* the listing the directory call returned: a 200 with a list of entries
\* that have a name
ListingReturned ==
    /\ pc \in {"deps", "languages"}
    /\ Len(received) = 3
    /\ received[3][2].kind = "http"
    /\ received[3][2].status = 200
    /\ received[3][2].body.t = "list"
    /\ \A i \in 1..Len(received[3][2].body.l) :
          /\ received[3][2].body.l[i].t = "obj"
          /\ DOMAIN received[3][2].body.l[i].o = {"name", "type", "path"}
Listing == received[3][2].body.l

EqualsIgnoringCase(a, b) == lower(a) = lower(b)
IsDir(e) == e.type = JStr(Dir)

\* C9: the result holds exactly the entries of the listing whose name does
\* not case-insensitively equal a member of IGNORE_FOLDERS, every directory
\* before every other entry, and within each group by case-insensitive
\* name ascending.
C9_StructureFilteredAndOrdered ==
    ListingReturned =>
        /\ {e.name : e \in Range(structure)} =
              {Listing[i].o["name"].s : i \in
                  {k \in 1..Len(Listing) :
                      \A f \in IGNORE_FOLDERS :
                          ~EqualsIgnoringCase(Listing[k].o["name"].s, f)}}
        /\ \A i, j \in 1..Len(structure) : i # j => structure[i].name # structure[j].name
        /\ \A e \in Range(structure) :
              \E i \in 1..Len(Listing) :
                  /\ Listing[i].o["name"].s = e.name
                  /\ Listing[i].o["type"] = e.type
                  /\ Listing[i].o["path"] = e.path
        /\ \A i, j \in 1..Len(structure) : i < j =>
              /\ IsDir(structure[j]) => IsDir(structure[i])
              /\ IsDir(structure[i]) = IsDir(structure[j]) =>
                    StrLeq(lower(structure[i].name), lower(structure[j].name))

\* a listing that had Node_Modules in it came back without it and in order
C9_Witness ==
    /\ ListingReturned
    /\ Len(Listing) = 3
    /\ Listing[1].o["name"].s = <<"a", "p", "p", ".", "p", "y">>
    /\ Listing[2].o["name"].s = <<"N", "o", "d", "e", "_", "M", "o", "d", "u", "l", "e", "s">>
    /\ Listing[3].o["name"].s = <<"D", "o", "c", "s">>
    /\ Len(structure) = 2
    /\ structure[1].name = <<"D", "o", "c", "s">>
    /\ structure[2].name = <<"a", "p", "p", ".", "p", "y">>

====
